---- MODULE Spec2Model ----
(***************************************************************************)
(* A model of fical (src/main.py): the URL safety validator, the calendar  *)
(* fetcher, the event filter, the calendar combiner, the short-link store  *)
(* and the three request handlers built from them.                         *)
(*                                                                         *)
(* Strings the code inspects character by character (keywords, event       *)
(* names) are sequences of one-character strings.  Everything the code     *)
(* gets from outside (DNS answers, HTTP responses, random keys) is an      *)
(* input chosen by the environment.                                        *)
(***************************************************************************)
EXTENDS Integers, Sequences, FiniteSets, TLC

VARIABLES
    store,      \* the short_links table: key -> payload, over the keys it holds
    pc,         \* position of the request being served
    op,         \* the request being served
    inputs,     \* the CalendarInput sequence _combine_calendars iterates
    i,          \* index of the entry the loop is at
    combined,   \* combined.events so far
    safe_url,   \* result of _validate_and_normalize_url for entry i
    body,       \* result of _fetch_calendar_body for entry i
    response,   \* the response of the request, NoResponse while in flight
    last,       \* ghost: the most recent answer of the environment
    validated,  \* ghost: entries whose URL passed validation in this request
    fetchlog,   \* ghost: the GETs issued in this request, in order
    store0,     \* ghost: the table when the request arrived
    issued,     \* ghost: key -> payload of the latest save that returned it
    arg,        \* input of a function under test
    ret         \* its result

vars == <<store, pc, op, inputs, i, combined, safe_url, body, response,
          last, validated, fetchlog, store0, issued, arg, ret>>

svc == <<store, pc, op, inputs, i, combined, safe_url, body, response,
         last, validated, fetchlog, store0, issued>>

(***************************************************************************)
(* Bounds of the model.                                                    *)
(***************************************************************************)
MaxAddrs == 2   \* addresses in one getaddrinfo answer
MaxList == 2    \* entries in an allowlist or blocklist under test
MaxName == 2    \* characters in an event name under test
MaxBatch == 6   \* calendars in a combined request

(***************************************************************************)
(* Program constants.                                                      *)
(***************************************************************************)
EMPTY_ALLOWLIST_TOKEN ==
    <<"_","_","e","m","p","t","y","_","a","l","l","o","w","l","i","s","t","_","_">>

MaxCalendars == 5

(***************************************************************************)
(* Strings.                                                                *)
(***************************************************************************)
Whitespace == {" "}

RECURSIVE LStrip(_)
LStrip(w) ==
    IF w # <<>> /\ Head(w) \in Whitespace THEN LStrip(Tail(w)) ELSE w

RECURSIVE RStrip(_)
RStrip(w) ==
    IF w # <<>> /\ w[Len(w)] \in Whitespace
    THEN RStrip(SubSeq(w, 1, Len(w) - 1))
    ELSE w

\* str.strip()
Strip(w) == RStrip(LStrip(w))

\* word in name
Contains(word, name) ==
    \E k \in 0..(Len(name) - Len(word)) :
        SubSeq(name, k + 1, k + Len(word)) = word

\* str.split(","): the pieces between the commas, at least one piece
RECURSIVE Split(_)
Split(s) ==
    LET commas == {k \in DOMAIN s : s[k] = ","}
    IN  IF commas = {}
        THEN <<s>>
        ELSE LET k == CHOOSE c \in commas : \A d \in commas : c <= d
             IN  <<SubSeq(s, 1, k - 1)>> \o Split(SubSeq(s, k + 1, Len(s)))

(***************************************************************************)
(* EventFilter: the keyword part of _filter_calendar_from_text.            *)
(***************************************************************************)
StripAll(list) == [j \in DOMAIN list |-> Strip(list[j])]

NormalizeAllowlistKeepToken(list) ==
    SelectSeq(StripAll(list), LAMBDA w : w # <<>>)

NormalizeAllowlist(list) ==
    SelectSeq(StripAll(list), LAMBDA w : w # <<>> /\ w # EMPTY_ALLOWLIST_TOKEN)

NormalizeBlocklist(list) ==
    SelectSeq(StripAll(list), LAMBDA w : w # <<>>)

\* c.name or "": an event is [uid, named, name], named FALSE when it has no name
NameOf(ev) == IF ev.named THEN ev.name ELSE <<>>

AnyWordIn(words, name) == \E j \in DOMAIN words : Contains(words[j], name)

IsAllowed(allow, name) == IF allow # <<>> THEN AnyWordIn(allow, name) ELSE TRUE

IsBlocked(block, name) == IF block # <<>> THEN AnyWordIn(block, name) ELSE FALSE

\* the events left in cal.events
FilterEvents(events, allowlist, blocklist) ==
    LET allow == NormalizeAllowlist(allowlist)
        block == NormalizeBlocklist(blocklist)
    IN  {c \in events :
            IsAllowed(allow, NameOf(c)) /\ ~IsBlocked(block, NameOf(c))}

(***************************************************************************)
(* The filter under test: every event name up to MaxName characters, and   *)
(* one holding the sentinel, against lists of up to MaxList entries.       *)
(***************************************************************************)
RECURSIVE StringsUpTo(_, _)
StringsUpTo(alphabet, n) ==
    IF n = 0
    THEN {<<>>}
    ELSE LET shorter == StringsUpTo(alphabet, n - 1)
         IN  shorter \cup {Append(s, ch) : s \in shorter, ch \in alphabet}

TestNames ==
    {<<"a">> \o EMPTY_ALLOWLIST_TOKEN} \cup StringsUpTo({"a", "b", " "}, MaxName)

TestEvents ==
    {[uid |-> n, named |-> TRUE, name |-> n] : n \in TestNames}
        \cup {[uid |-> <<"b">>, named |-> FALSE, name |-> <<>>]}

TestKeywords ==
    { <<" ">>, <<" ", "a">>, <<"b">>,
      EMPTY_ALLOWLIST_TOKEN, <<" ">> \o EMPTY_ALLOWLIST_TOKEN \o <<" ">> }

RECURSIVE ListsUpTo(_, _)
ListsUpTo(S, n) ==
    IF n = 0
    THEN {<<>>}
    ELSE LET shorter == ListsUpTo(S, n - 1)
         IN  shorter \cup {Append(s, x) : s \in shorter, x \in S}

TestLists == ListsUpTo(TestKeywords, MaxList)

NotRun == [done |-> FALSE]

InitService ==
    /\ store = <<>>
    /\ pc = "idle"
    /\ op = [kind |-> "none"]
    /\ inputs = <<>>
    /\ i = 0
    /\ combined = {}
    /\ safe_url = <<>>
    /\ body = [kind |-> "none", events |-> {}]
    /\ response = [status |-> 0, kind |-> "none", detail |-> "", events |-> {},
                   short |-> <<>>]
    /\ last = [step |-> "none", answer |-> [kind |-> "not_asked", addrinfo |-> <<>>]]
    /\ validated = {}
    /\ fetchlog = <<>>
    /\ store0 = store
    /\ issued = <<>>

InitFilter ==
    /\ InitService
    /\ arg \in [allowlist : TestLists, blocklist : TestLists]
    /\ ret = NotRun

ApplyFilter ==
    /\ ~ret.done
    /\ ret' = [done |-> TRUE,
               events |-> FilterEvents(TestEvents, arg.allowlist, arg.blocklist)]
    /\ UNCHANGED <<svc, arg>>

SpecFilter == InitFilter /\ [][ApplyFilter]_vars

(***************************************************************************)
(* UrlSafetyValidator.                                                     *)
(*                                                                         *)
(* A URL is <<scheme as written, netloc, path>>.  An address is the five   *)
(* flags of ipaddress the code reads, Public being an address with none of *)
(* them set.  A DNS answer is what getaddrinfo                             *)
(* did: returned a list of addresses, raised socket.gaierror, or raised    *)
(* something else (UnicodeError for a label the idna codec refuses).       *)
(***************************************************************************)
Lower(scheme) ==
    CASE scheme = "HTTP" -> "http"
      [] scheme = "HTTPS" -> "https"
      [] scheme = "FTP" -> "ftp"
      [] OTHER -> scheme

\* ParseResult.hostname: the host of the netloc, lower case; "" when there is none
Hostname(netloc) ==
    CASE netloc = "One.example" -> "one.example"
      [] netloc = "user@two.example:8080" -> "two.example"
      [] netloc = ":80" -> ""
      [] netloc = "user@" -> ""
      [] OTHER -> netloc

urlparse(raw_url) ==
    [scheme |-> Lower(raw_url[1]), netloc |-> raw_url[2], path |-> raw_url[3],
     hostname |-> Hostname(raw_url[2])]

geturl(parsed_url) == <<parsed_url.scheme, parsed_url.netloc, parsed_url.path>>

Addr(priv, loop, link, resv, unspec) ==
    [is_private |-> priv, is_loopback |-> loop, is_link_local |-> link,
     is_reserved |-> resv, is_unspecified |-> unspec]

Public == Addr(FALSE, FALSE, FALSE, FALSE, FALSE)
Private == Addr(TRUE, FALSE, FALSE, FALSE, FALSE)
Loopback == Addr(FALSE, TRUE, FALSE, FALSE, FALSE)
LinkLocal == Addr(FALSE, FALSE, TRUE, FALSE, FALSE)
Reserved == Addr(FALSE, FALSE, FALSE, TRUE, FALSE)
Unspecified == Addr(FALSE, FALSE, FALSE, FALSE, TRUE)

Addresses == {Public, Private, Loopback, LinkLocal, Reserved, Unspecified}

DnsOk(addrinfo) == [kind |-> "ok", addrinfo |-> addrinfo]
DnsGaierror == [kind |-> "gaierror", addrinfo |-> <<>>]
DnsOtherError == [kind |-> "error", addrinfo |-> <<>>]

\* getaddrinfo returns at least one address or raises
DnsOutcomes ==
    {DnsGaierror, DnsOtherError}
        \cup {DnsOk(a) : a \in ListsUpTo(Addresses, MaxAddrs) \ {<<>>}}

Flagged(ip) ==
    \/ ip.is_private
    \/ ip.is_loopback
    \/ ip.is_link_local
    \/ ip.is_reserved
    \/ ip.is_unspecified

\* a mutant: only the first address returned is looked at
IsPrivateHostFirstOnly(dns) ==
    CASE dns.kind = "gaierror" -> [raised |-> FALSE, value |-> TRUE]
      [] dns.kind = "error" -> [raised |-> TRUE, value |-> FALSE]
      [] OTHER -> [raised |-> FALSE, value |-> Flagged(dns.addrinfo[1])]

\* _is_private_host: raised is TRUE when an exception leaves the function
IsPrivateHost(dns) ==
    CASE dns.kind = "gaierror" -> [raised |-> FALSE, value |-> TRUE]
      [] dns.kind = "error" -> [raised |-> TRUE, value |-> FALSE]
      [] OTHER ->
            LET addresses == {dns.addrinfo[k] : k \in DOMAIN dns.addrinfo}
            IN  [raised |-> FALSE, value |-> \E addr \in addresses : Flagged(addr)]

\* whether _validate_and_normalize_url gets as far as resolving the host
Resolves(raw_url) ==
    LET parsed_url == urlparse(raw_url)
    IN  /\ parsed_url.scheme \in {"http", "https"}
        /\ parsed_url.netloc # ""
        /\ parsed_url.hostname # ""

Ok(value) == [status |-> 200, detail |-> "", value |-> value]

HTTPException(status, detail) == [status |-> status, detail |-> detail, value |-> <<>>]

\* an exception no handler catches: the framework answers 500
Unhandled == HTTPException(500, "Internal Server Error")

\* a mutant: the host is never checked
ValidateSchemeOnly(raw_url, dns) ==
    LET parsed_url == urlparse(raw_url)
    IN  IF parsed_url.scheme \notin {"http", "https"} \/ parsed_url.netloc = ""
        THEN HTTPException(400, "Only http and https URLs are supported.")
        ELSE Ok(geturl(parsed_url))

\* _validate_and_normalize_url, dns being what getaddrinfo answers if asked
ValidateAndNormalizeUrl(raw_url, dns) ==
    LET parsed_url == urlparse(raw_url)
    IN  IF parsed_url.scheme \notin {"http", "https"} \/ parsed_url.netloc = ""
        THEN HTTPException(400, "Only http and https URLs are supported.")
        ELSE IF parsed_url.hostname = ""
        THEN HTTPException(400, "URL host is not allowed.")
        ELSE LET private == IsPrivateHost(dns)
             IN  IF private.raised THEN Unhandled
                 ELSE IF private.value
                 THEN HTTPException(400, "URL host is not allowed.")
                 ELSE Ok(geturl(parsed_url))

TestUrls ==
    { <<"https", "one.example", "/a.ics">>,
      <<"HTTP", "One.example", "/a.ics">>,
      <<"http", "user@two.example:8080", "">>,
      <<"ftp", "one.example", "/a.ics">>,
      <<"https", "", "/a.ics">>,
      <<"http", ":80", "/a.ics">> }

InitValidate ==
    /\ InitService
    /\ arg \in [raw_url : TestUrls, dns : DnsOutcomes]
    /\ ret = NotRun

ApplyValidate ==
    /\ ~ret.done
    /\ ret' = [done |-> TRUE, result |-> ValidateAndNormalizeUrl(arg.raw_url, arg.dns)]
    /\ UNCHANGED <<svc, arg>>

SpecValidate == InitValidate /\ [][ApplyValidate]_vars

(***************************************************************************)
(* CalendarFetcher and the parsing part of _filter_calendar_from_text.     *)
(*                                                                         *)
(* What requests.get did is the environment's answer: it timed out, raised *)
(* another RequestException, raised anything else, or returned a response  *)
(* whose text is the feed of the host, text that is no calendar, or text   *)
(* on which the parser raises something other than ValueError.             *)
(***************************************************************************)
Event(uid, name) == [uid |-> uid, named |-> TRUE, name |-> name]

Ev1 == Event("1", <<"a", "b">>)
Ev2 == Event("2", <<"b", " ", "c">>)
Ev3 == [uid |-> "3", named |-> FALSE, name |-> <<>>]
Ev4 == Event("4", <<"c", "a">>)

\* the events of the feed a host serves
Feed(hostname) ==
    CASE hostname = "one.example" -> {Ev1, Ev2}
      [] hostname = "two.example" -> {Ev2, Ev3}
      [] OTHER -> {Ev3, Ev4}

FetchOutcomes ==
    [kind : {"timeout", "request_exception", "exception"}, text : {""}]
        \cup [kind : {"response"}, text : {"feed", "not_ics", "breaks_parser"}]

\* _fetch_calendar_body, answer being what requests.get did
FetchCalendarBody(url, answer) ==
    CASE answer.kind = "timeout" ->
            HTTPException(400, "Timed out while getting the URL, timeout is 30 seconds.")
      [] answer.kind = "request_exception" ->
            HTTPException(400, "Error getting the URL.")
      [] answer.kind = "exception" ->
            HTTPException(500, "Error while fetching calendar contents.")
      [] OTHER ->
            Ok(IF answer.text = "feed"
               THEN [kind |-> "ics", events |-> Feed(urlparse(url).hostname)]
               ELSE [kind |-> answer.text, events |-> {}])

\* a mutant: text that is no calendar counts as a calendar without events
FilterCalendarSkipsInvalid(cal_text, allowlist, blocklist) ==
    CASE cal_text.kind = "not_ics" -> Ok({})
      [] cal_text.kind = "breaks_parser" ->
            HTTPException(500, "Error while parsing calendar contents.")
      [] OTHER -> Ok(FilterEvents(cal_text.events, allowlist, blocklist))

\* _filter_calendar_from_text: the events of the calendar returned
FilterCalendarFromText(cal_text, allowlist, blocklist) ==
    CASE cal_text.kind = "not_ics" ->
            HTTPException(400, "Server response not a valid ics format.")
      [] cal_text.kind = "breaks_parser" ->
            HTTPException(500, "Error while parsing calendar contents.")
      [] OTHER -> Ok(FilterEvents(cal_text.events, allowlist, blocklist))

(***************************************************************************)
(* ShortLinkStore.                                                         *)
(***************************************************************************)
Keys == {"k1", "k2"}

\* a mutant: INSERT OR IGNORE, the first payload of a key stays
SaveFirstWins(table, key, payload) ==
    [k \in DOMAIN table \cup {key} |->
        IF k \in DOMAIN table THEN table[k] ELSE payload]

\* the INSERT OR REPLACE of _save_short_payload, key being the token drawn
SaveShortPayload(table, key, payload) ==
    [k \in DOMAIN table \cup {key} |-> IF k = key THEN payload ELSE table[k]]

\* _load_short_payload
LoadShortPayload(table, key) ==
    IF key \notin DOMAIN table
    THEN HTTPException(404, "Short link not found.")
    ELSE Ok(table[key])

\* request.model_dump_json(): the JSON object as its keys and values in order
ModelDumpJson(request) ==
    << "calendars",
       [j \in DOMAIN request.calendars |->
            << "url", request.calendars[j].url,
               "allowlist", request.calendars[j].allowlist,
               "blocklist", request.calendars[j].blocklist >>],
       "short", request.short >>

\* CombinedCalendarRequest.model_validate_json(payload)
ModelValidateJson(payload) ==
    [calendars |->
        [j \in DOMAIN payload[2] |->
            [url |-> payload[2][j][2],
             allowlist |-> payload[2][j][4],
             blocklist |-> payload[2][j][6]]],
     short |-> payload[4]]

(***************************************************************************)
(* The requests the model serves.                                          *)
(***************************************************************************)
CalInputs ==
    << [url |-> <<"https", "one.example", "/a.ics">>,
        allowlist |-> << <<"a">> >>, blocklist |-> <<>>],
       [url |-> <<"HTTP", "One.example", "/a.ics">>,
        allowlist |-> << EMPTY_ALLOWLIST_TOKEN >>, blocklist |-> << <<" ", "a">> >>],
       [url |-> <<"http", "user@two.example:8080", "">>,
        allowlist |-> <<>>, blocklist |-> <<>>] >>

\* n calendars, taken from CalInputs in turn starting after the k-th
Batch(n, k) == [j \in 1..n |-> CalInputs[((j + k) % Len(CalInputs)) + 1]]

CombinedRequests ==
    {[calendars |-> Batch(n, k), short |-> s] :
        n \in 0..MaxBatch, k \in DOMAIN CalInputs, s \in BOOLEAN}

OkParam(text) == [enc |-> "ok", text |-> text]
BadParam(enc) == [enc |-> enc, text |-> <<>>]

GetQueries ==
    [ b64url : { OkParam(<<"https", "one.example", "/a.ics">>),
                 OkParam(<<"ftp", "one.example", "/a.ics">>),
                 BadParam("bad_alphabet") },
      b64allowlist : { OkParam(<<"a", ",", " ">>), BadParam("bad_utf8") },
      b64blocklist : { BadParam("empty"), OkParam(<<"c">>), BadParam("bad_padding") },
      short : BOOLEAN ]

\* the DNS answers the service is given
ServiceDns ==
    { DnsGaierror, DnsOtherError, DnsOk(<<Public>>), DnsOk(<<Private>>),
      DnsOk(<<Public, Loopback>>), DnsOk(<<Reserved, Public>>) }

NotAsked == [kind |-> "not_asked", addrinfo |-> <<>>]

(***************************************************************************)
(* Responses.                                                              *)
(***************************************************************************)
NoResponse ==
    [status |-> 0, kind |-> "none", detail |-> "", events |-> {}, short |-> <<>>]

\* Response(content=cal.serialize(), media_type="text/calendar")
CalendarResponse(events) ==
    [status |-> 200, kind |-> "text/calendar", detail |-> "", events |-> events,
     short |-> <<>>]

\* {"short": f"{base}/s/{key}"}
ShortResponse(key) ==
    [status |-> 200, kind |-> "json", detail |-> "", events |-> {},
     short |-> <<"base", "s", key>>]

\* what the framework answers for an exception that left the handler
ErrorResponse(exc) ==
    [status |-> exc.status, kind |-> "error", detail |-> exc.detail, events |-> {},
     short |-> <<>>]

(***************************************************************************)
(* The handlers.  A request arrives when none is in flight; the loop of    *)
(* _combine_calendars then runs entry by entry, each entry in three steps  *)
(* (validate, fetch, parse and filter) as _filtered_calendar_from_url      *)
(* calls them.  Once the response is made the handler returns, and all it  *)
(* leaves behind is the table.                                             *)
(***************************************************************************)
InvalidBase64(param_name) ==
    CASE param_name = "calendar URL" -> "Invalid base64 data for calendar URL."
      [] param_name = "allowlist" -> "Invalid base64 data for allowlist."
      [] OTHER -> "Invalid base64 data for blocklist."

InvalidUtf8(param_name) ==
    CASE param_name = "calendar URL" -> "calendar URL must be valid UTF-8."
      [] param_name = "allowlist" -> "allowlist must be valid UTF-8."
      [] OTHER -> "blocklist must be valid UTF-8."

\* _decode_b64url_param
DecodeB64UrlParam(encoded_value, param_name) ==
    CASE encoded_value.enc \in {"bad_alphabet", "bad_padding"} ->
            HTTPException(400, InvalidBase64(param_name))
      [] encoded_value.enc = "bad_utf8" -> HTTPException(400, InvalidUtf8(param_name))
      [] OTHER -> Ok(encoded_value.text)

\* a mutant: the upper limit is not checked
BatchSizeNoMaximum(calendars) ==
    IF calendars = <<>>
    THEN HTTPException(400, "At least one calendar is required.")
    ELSE Ok(<<>>)

\* a mutant: the limit is off by one
BatchSizeOffByOne(calendars) ==
    IF calendars = <<>>
    THEN HTTPException(400, "At least one calendar is required.")
    ELSE IF Len(calendars) >= MaxCalendars
    THEN HTTPException(400, "Maximum of 5 calendars are allowed per request.")
    ELSE Ok(<<>>)

\* the two checks combined_calendar starts with
BatchSizeCheck(calendars) ==
    IF calendars = <<>>
    THEN HTTPException(400, "At least one calendar is required.")
    ELSE IF Len(calendars) > MaxCalendars
    THEN HTTPException(400, "Maximum of 5 calendars are allowed per request.")
    ELSE Ok(<<>>)

\* a mutant: each calendar replaces the events combined so far
CombineAddReplaces(events, filtered) == filtered

\* for ev in filtered.events: combined.events.add(ev)
CombineAdd(events, filtered) == events \cup filtered

Arrive(request) ==
    /\ pc = "idle"
    /\ op' = request
    /\ store0' = store
    /\ last' = [step |-> "none", answer |-> NotAsked]
    /\ validated' = {}
    /\ fetchlog' = <<>>
    /\ combined' = {}
    /\ safe_url' = <<>>
    /\ body' = [kind |-> "none", events |-> {}]
    /\ UNCHANGED <<arg, ret>>

Respond(r) ==
    /\ pc' = "done"
    /\ response' = r

RespondAtOnce(r) ==
    /\ Respond(r)
    /\ inputs' = <<>>
    /\ i' = 0

\* _combine_calendars(calendars) is entered
StartLoop(calendars) ==
    /\ inputs' = calendars
    /\ IF calendars = <<>>
       THEN /\ i' = 0
            /\ Respond(CalendarResponse({}))
       ELSE /\ i' = 1
            /\ pc' = "validate"
            /\ response' = NoResponse

\* POST /calendars/combined.ics
CombinedCalendar(request) ==
    /\ Arrive([kind |-> "combined", request |-> request])
    /\ LET size == BatchSizeCheck(request.calendars)
       IN  IF size.status # 200
           THEN /\ RespondAtOnce(ErrorResponse(size))
                /\ UNCHANGED <<store, issued>>
           ELSE IF request.short
           THEN \E key \in Keys :
                    /\ store' = SaveShortPayload(store, key, ModelDumpJson(request))
                    /\ issued' = [k \in DOMAIN issued \cup {key} |->
                                    IF k = key THEN ModelDumpJson(request) ELSE issued[k]]
                    /\ RespondAtOnce(ShortResponse(key))
           ELSE /\ StartLoop(request.calendars)
                /\ UNCHANGED <<store, issued>>

\* GET /s/{key}
ResolveShortLink(key) ==
    LET payload == LoadShortPayload(store, key)
    IN  /\ Arrive([kind |-> "resolve", key |-> key, payload |-> payload])
        /\ UNCHANGED <<store, issued>>
        /\ IF payload.status # 200
           THEN RespondAtOnce(ErrorResponse(payload))
           ELSE StartLoop(ModelValidateJson(payload.value).calendars)

\* GET /calendar/{b64url}/{b64allowlist}/filtered.ics
GetCalendar(query) ==
    LET raw_url == DecodeB64UrlParam(query.b64url, "calendar URL")
        allowlist_raw == DecodeB64UrlParam(query.b64allowlist, "allowlist")
        blocklist_raw ==
            IF query.b64blocklist.enc # "empty"
            THEN DecodeB64UrlParam(query.b64blocklist, "blocklist")
            ELSE Ok(<<>>)
    IN  /\ Arrive([kind |-> "get_calendar", query |-> query])
        /\ UNCHANGED <<store, issued>>
        /\ IF raw_url.status # 200 THEN RespondAtOnce(ErrorResponse(raw_url))
           ELSE IF allowlist_raw.status # 200
           THEN RespondAtOnce(ErrorResponse(allowlist_raw))
           ELSE IF blocklist_raw.status # 200
           THEN RespondAtOnce(ErrorResponse(blocklist_raw))
           ELSE StartLoop(<< [url |-> raw_url.value,
                              allowlist |-> Split(allowlist_raw.value),
                              blocklist |-> IF blocklist_raw.value # <<>>
                                            THEN Split(blocklist_raw.value)
                                            ELSE <<>>] >>)

\* safe_url = _validate_and_normalize_url(raw_url)
Validate ==
    /\ pc = "validate"
    /\ \E dns \in IF Resolves(inputs[i].url) THEN ServiceDns ELSE {NotAsked} :
         LET r == ValidateAndNormalizeUrl(inputs[i].url, dns)
         IN  /\ last' = [step |-> "validate", answer |-> dns]
             /\ IF r.status = 200
                THEN /\ safe_url' = r.value
                     /\ validated' = validated \cup {[entry |-> i, url |-> r.value, answer |-> dns]}
                     /\ pc' = "fetch"
                     /\ UNCHANGED response
                ELSE /\ Respond(ErrorResponse(r))
                     /\ UNCHANGED <<safe_url, validated>>
    /\ UNCHANGED <<store, op, inputs, i, combined, body, fetchlog, store0, issued,
                   arg, ret>>

\* remote_cal = _fetch_calendar_body(safe_url)
Fetch ==
    /\ pc = "fetch"
    /\ \E answer \in FetchOutcomes :
         LET r == FetchCalendarBody(safe_url, answer)
         IN  /\ last' = [step |-> "fetch",
                         answer |-> [kind |-> answer.kind, addrinfo |-> <<>>]]
             /\ fetchlog' = Append(fetchlog, [entry |-> i, url |-> safe_url])
             /\ IF r.status = 200
                THEN /\ body' = r.value
                     /\ pc' = "parse"
                     /\ UNCHANGED response
                ELSE /\ Respond(ErrorResponse(r))
                     /\ UNCHANGED body
    /\ UNCHANGED <<store, op, inputs, i, combined, safe_url, validated, store0,
                   issued, arg, ret>>

\* _filter_calendar_from_text(remote_cal, ...), then the rest of the loop body
ParseFilter ==
    /\ pc = "parse"
    /\ LET r == FilterCalendarFromText(body, inputs[i].allowlist, inputs[i].blocklist)
           events == IF op.kind = "get_calendar"
                     THEN r.value
                     ELSE CombineAdd(combined, r.value)
       IN  /\ last' = [step |-> "parse",
                       answer |-> [kind |-> body.kind, addrinfo |-> <<>>]]
           /\ IF r.status # 200
              THEN /\ Respond(ErrorResponse(r))
                   /\ UNCHANGED <<i, combined>>
              ELSE /\ combined' = events
                   /\ IF i = Len(inputs)
                      THEN /\ Respond(CalendarResponse(events))
                           /\ UNCHANGED i
                      ELSE /\ i' = i + 1
                           /\ pc' = "validate"
                           /\ UNCHANGED response
    /\ UNCHANGED <<store, op, inputs, safe_url, body, validated, fetchlog, store0,
                   issued, arg, ret>>

\* the handler returns: its locals are gone, the table stays
Return ==
    /\ pc = "done"
    /\ pc' = "idle"
    /\ op' = [kind |-> "none"]
    /\ inputs' = <<>>
    /\ i' = 0
    /\ combined' = {}
    /\ safe_url' = <<>>
    /\ body' = [kind |-> "none", events |-> {}]
    /\ response' = NoResponse
    /\ last' = [step |-> "none", answer |-> NotAsked]
    /\ validated' = {}
    /\ fetchlog' = <<>>
    /\ store0' = store
    /\ UNCHANGED <<store, issued, arg, ret>>

Init ==
    /\ InitService
    /\ arg = <<>>
    /\ ret = NotRun

Next ==
    \/ \E request \in CombinedRequests : CombinedCalendar(request)
    \/ \E key \in Keys : ResolveShortLink(key)
    \/ \E query \in GetQueries : GetCalendar(query)
    \/ Validate
    \/ Fetch
    \/ ParseFilter
    \/ Return

Spec == Init /\ [][Next]_vars

(***************************************************************************)
(* _combine_calendars as a function of its inputs, when every host         *)
(* resolves to a public address and serves its feed.                       *)
(***************************************************************************)
FilteredCalendarFromUrl(entry) ==
    LET safe == ValidateAndNormalizeUrl(entry.url, DnsOk(<<Public>>)).value
        remote_cal == FetchCalendarBody(safe, [kind |-> "response", text |-> "feed"]).value
    IN  FilterCalendarFromText(remote_cal, entry.allowlist, entry.blocklist).value

RECURSIVE CombineLoop(_, _, _)
CombineLoop(entries, j, events) ==
    IF j > Len(entries)
    THEN events
    ELSE CombineLoop(entries, j + 1,
                     CombineAdd(events, FilteredCalendarFromUrl(entries[j])))

CombineCalendars(entries) == CombineLoop(entries, 1, {})

(***************************************************************************)
(* Properties.                                                             *)
(***************************************************************************)
NonPublic == {Private, Loopback, LinkLocal, Reserved, Unspecified}

HostNotAllowed(r) == r.status = 400 /\ r.detail = "URL host is not allowed."

\* C1: when the host of an http(s) URL resolves, validation rejects the URL with
\* "URL host is not allowed" iff some address of the answer is private, loopback,
\* link-local, reserved or unspecified, wherever it stands in the answer; it
\* accepts only when every address is public.
C1_RejectsAnyNonPublicAddress ==
    (ret.done /\ Resolves(arg.raw_url) /\ arg.dns.kind = "ok") =>
        LET answer == arg.dns.addrinfo
        IN  /\ (\E k \in DOMAIN answer : answer[k] \in NonPublic)
                    => HostNotAllowed(ret.result)
            /\ ret.result.status = 200
                    => \A k \in DOMAIN answer : answer[k] = Public
            /\ ret.result.status \in {200, 400}

C1_Witness ==
    /\ ret.done
    /\ arg.raw_url = <<"https", "one.example", "/a.ics">>
    /\ arg.dns = DnsOk(<<Public, Private>>)
    /\ HostNotAllowed(ret.result)

\* C2: when the resolution of a host fails, in whatever way, the request ends with
\* the client error "URL host is not allowed" and no GET was issued for that entry.
C2_ResolutionFailureIsClientError ==
    (pc = "done" /\ last.step = "validate" /\ last.answer.kind \in {"gaierror", "error"})
        => /\ HostNotAllowed(response)
           /\ \A k \in DOMAIN fetchlog : fetchlog[k].entry # i

AllPublic(answer) ==
    /\ answer.kind = "ok"
    /\ \A k \in DOMAIN answer.addrinfo : answer.addrinfo[k] = Public

\* C3: in every request every GET is for a URL that passed validation for the same
\* entry of the same request, on a DNS answer holding public addresses only; an
\* entry whose host fails to resolve or resolves to a non-public address ends the
\* request with an error and is not fetched, also when a short link is resolved.
C3_FetchOnlyAfterValidation ==
    /\ \A k \in DOMAIN fetchlog :
         \E v \in validated :
            /\ v.entry = fetchlog[k].entry
            /\ v.url = fetchlog[k].url
            /\ v.url = geturl(urlparse(inputs[v.entry].url))
            /\ AllPublic(v.answer)
    /\ pc \in {"fetch", "parse"} =>
         \E v \in validated : v.entry = i /\ v.url = safe_url /\ AllPublic(v.answer)
    /\ (last.step = "validate" /\ ~AllPublic(last.answer)) =>
         /\ pc = "done"
         /\ response.status \in {400, 500}
         /\ response.kind = "error"
         /\ \A k \in DOMAIN fetchlog : fetchlog[k].entry # i

C3_Witness ==
    /\ op.kind = "resolve"
    /\ pc = "done"
    /\ i = 2
    /\ Len(fetchlog) = 1
    /\ last.step = "validate"
    /\ last.answer = DnsOk(<<Private>>)
    /\ HostNotAllowed(response)

Min(S) == CHOOSE x \in S : \A y \in S : x <= y
Max(S) == CHOOSE x \in S : \A y \in S : y <= x

\* a keyword without the blanks around it
Trimmed(w) ==
    LET inked == {j \in DOMAIN w : w[j] # " "}
    IN  IF inked = {} THEN <<>> ELSE SubSeq(w, Min(inked), Max(inked))

WantedAllow(list) ==
    {Trimmed(list[j]) : j \in DOMAIN list} \ {<<>>, EMPTY_ALLOWLIST_TOKEN}

WantedBlock(list) == {Trimmed(list[j]) : j \in DOMAIN list} \ {<<>>}

\* C4: the filter keeps an event iff (the normalized allowlist is empty or the name
\* contains one of its keywords) and the name contains no keyword of the normalized
\* blocklist; normalizing trims, drops empty entries and drops the sentinel from
\* the allowlist; an event without a name counts as named "".
C4_FilterKeepsIff ==
    ret.done =>
        /\ ret.events \subseteq TestEvents
        /\ \A ev \in TestEvents :
             LET name == IF ev.named THEN ev.name ELSE <<>>
                 allow == WantedAllow(arg.allowlist)
                 block == WantedBlock(arg.blocklist)
             IN  ev \in ret.events <=>
                    /\ allow = {} \/ \E w \in allow : Contains(w, name)
                    /\ ~\E w \in block : Contains(w, name)

C4_Witness ==
    /\ ret.done
    /\ arg.allowlist = << <<" ">> \o EMPTY_ALLOWLIST_TOKEN \o <<" ">>, <<" ">> >>
    /\ arg.blocklist = << <<" ", "a">> >>
    /\ ret.events = {ev \in TestEvents : ~Contains(<<"a">>, NameOf(ev))}
    /\ [uid |-> <<"b">>, named |-> FALSE, name |-> <<>>] \in ret.events
    /\ [uid |-> <<"a", "b">>, named |-> TRUE, name |-> <<"a", "b">>] \notin ret.events

\* seq without its j-th element
Without(seq, j) == SubSeq(seq, 1, j - 1) \o SubSeq(seq, j + 1, Len(seq))

RECURSIVE Reorderings(_)
Reorderings(seq) ==
    IF seq = <<>>
    THEN {<<>>}
    ELSE UNION {{<<seq[j]>> \o rest : rest \in Reorderings(Without(seq, j))} :
                    j \in DOMAIN seq}

\* C5: a combination of 1 to 5 calendars that all validate, fetch and parse
\* returns the union of the events each calendar's filter keeps, each event once,
\* and the combination of every permutation of the calendars is that same set.
C5_CombinationCommutes ==
    (pc = "done" /\ op.kind \in {"combined", "resolve"} /\ response.kind = "text/calendar")
        => /\ Len(inputs) \in 1..5
           /\ response.events =
                UNION {FilterEvents(Feed(Hostname(inputs[j].url[2])),
                                    inputs[j].allowlist, inputs[j].blocklist) :
                          j \in DOMAIN inputs}
           /\ \A p \in Reorderings(inputs) : CombineCalendars(p) = response.events

C5_Witness ==
    /\ pc = "done"
    /\ op.kind = "combined"
    /\ Len(inputs) = 5
    /\ response.kind = "text/calendar"
    /\ response.events = {Ev1, Ev2, Ev3}

StepFailed ==
    \/ last.step = "validate" /\ ~AllPublic(last.answer)
    \/ last.step = "fetch" /\ last.answer.kind # "response"
    \/ last.step = "parse" /\ last.answer.kind # "ics"

\* C6: when validation, fetch or parsing fails for a calendar of a combination, the
\* request ends there with an error response that holds no calendar and no event,
\* and no entry was fetched twice.
C6_FailureAbortsBatch ==
    (op.kind \in {"combined", "resolve"} /\ StepFailed) =>
        /\ pc = "done"
        /\ response.kind = "error"
        /\ response.events = {}
        /\ response.status =
             IF last.answer.kind \in {"error", "exception", "breaks_parser"}
             THEN 500 ELSE 400
        /\ Len(fetchlog) <= i
        /\ \A k, m \in DOMAIN fetchlog :
             fetchlog[k].entry = fetchlog[m].entry => k = m

C6_Witness ==
    /\ op.kind = "combined"
    /\ pc = "done"
    /\ i = 3
    /\ combined # {}
    /\ last.step = "parse"
    /\ last.answer.kind = "not_ics"
    /\ response.status = 400
    /\ response.events = {}

\* C7: resolving a key some save returned loads exactly the payload of the latest
\* save that returned it, a short combined request leaves its serialized request
\* under the key it answers with, and resolving a key no save returned answers 404
\* and leaves the table as it was.
C7_ShortLinkRoundTrip ==
    /\ op.kind = "resolve" =>
         IF op.key \in DOMAIN issued
         THEN op.payload = Ok(issued[op.key])
         ELSE /\ pc = "done"
              /\ response.status = 404
              /\ response.kind = "error"
              /\ store = store0
    /\ (op.kind = "combined" /\ response.kind = "json") =>
         /\ response.short[3] \in DOMAIN issued
         /\ LoadShortPayload(store, response.short[3]) = Ok(ModelDumpJson(op.request))

C7_Witness ==
    /\ op.kind = "resolve"
    /\ op.key = "k2"
    /\ DOMAIN store0 = Keys
    /\ store0["k1"] # store0["k2"]
    /\ op.payload = Ok(ModelDumpJson([calendars |-> Batch(5, 1), short |-> TRUE]))
    /\ inputs = Batch(5, 1)

SizeDetails ==
    {"At least one calendar is required.",
     "Maximum of 5 calendars are allowed per request."}

\* C8: a combined request with 0 or with more than 5 calendars, short or not, is
\* answered 400 with nothing validated, fetched or written; one with 1 to 5
\* calendars is not refused for its size.
C8_BatchSizeLimits ==
    op.kind = "combined" =>
        LET n == Len(op.request.calendars)
        IN  IF n = 0 \/ n > 5
            THEN /\ pc = "done"
                 /\ response.status = 400
                 /\ response.detail \in SizeDetails
                 /\ validated = {}
                 /\ fetchlog = <<>>
                 /\ store = store0
            ELSE /\ response.detail \notin SizeDetails
                 /\ IF op.request.short
                    THEN response.status = 200 /\ response.kind = "json"
                    ELSE inputs = op.request.calendars

C8_Witness ==
    /\ op.kind = "combined"
    /\ Len(op.request.calendars) = 6
    /\ op.request.short
    /\ pc = "done"
    /\ response.status = 400
    /\ store = store0

\* C9: a single-calendar request made with short=true whose URL validates, fetches
\* and parses is answered with a short link, not with the calendar.
C9_GetCalendarShortLink ==
    (pc = "done" /\ op.kind = "get_calendar" /\ op.query.short
        /\ last.step = "parse" /\ last.answer.kind = "ics")
        => response.status = 200 /\ response.kind = "json"

\* C10: every payload in the table is the serialization of a combined request with
\* 1 to 5 calendars, and resolving a key never combines 0 or more than 5 calendars.
C10_StoredPayloadsWithinLimits ==
    /\ \A k \in DOMAIN store :
         /\ ModelDumpJson(ModelValidateJson(store[k])) = store[k]
         /\ Len(ModelValidateJson(store[k]).calendars) \in 1..5
    /\ (op.kind = "resolve" /\ op.payload.status = 200) => Len(inputs) \in 1..5

C10_Witness ==
    /\ op.kind = "resolve"
    /\ pc = "done"
    /\ Len(inputs) = 5
    /\ response.status = 200

====
